---- MODULE Spec2Model ----
(***************************************************************************)
(* composable-state: the action evaluator `composable` and the combinators *)
(* replace, merge, concat, setIn, selectArray, pathSplit, select,          *)
(* selectAll, collect, map and range, over JavaScript values kept in an    *)
(* explicit heap so that reference identity and in-place writes are        *)
(* observable.                                                             *)
(***************************************************************************)
EXTENDS Integers, Sequences, FiniteSets, TLC

(***************************************************************************)
(* JavaScript values.  A value is a record [t, n, s]: t is the type tag,   *)
(* n the number (or the heap address of a reference), s the characters of  *)
(* a string.  Containers and function objects live in the heap, a sequence *)
(* of cells addressed 1..Len(heap).                                        *)
(***************************************************************************)
Undefined == [t |-> "undefined", n |-> 0, s |-> <<>>]

Null == [t |-> "null", n |-> 0, s |-> <<>>]

Hole == [t |-> "hole", n |-> 0, s |-> <<>>]

NaN == [t |-> "nan", n |-> 0, s |-> <<>>]

Num(i) == [t |-> "num", n |-> i, s |-> <<>>]

Bool(b) == [t |-> "bool", n |-> IF b THEN 1 ELSE 0, s |-> <<>>]

Str(chars) == [t |-> "str", n |-> 0, s |-> chars]

Ref(a) == [t |-> "ref", n |-> a, s |-> <<>>]

NoFields == [k \in {} |-> Undefined]

NoCode == [op |-> "none"]

ObjCell(f) == [kind |-> "obj", elems |-> <<>>, fields |-> f, code |-> NoCode]

ArrCell(e) == [kind |-> "arr", elems |-> e, fields |-> NoFields, code |-> NoCode]

FnCell(c) == [kind |-> "fn", elems |-> <<>>, fields |-> NoFields, code |-> c]

IsRef(v) == v.t = "ref"

IsArray(h, v) == IsRef(v) /\ h[v.n].kind = "arr"

IsObject(h, v) == IsRef(v) /\ h[v.n].kind = "obj"

IsFnValue(h, v) == IsRef(v) /\ h[v.n].kind = "fn"

Ok(v, h) == [val |-> v, heap |-> h, err |-> ""]

Throw(h) == [val |-> Undefined, heap |-> h, err |-> "TypeError"]

(***************************************************************************)
(* Property keys are strings, modelled as sequences of characters.  A key  *)
(* that is a canonical decimal numeral is an array index.                  *)
(***************************************************************************)
Digits == <<"0", "1", "2", "3", "4", "5", "6", "7", "8", "9">>

DigitSet == {Digits[i] : i \in 1..Len(Digits)}

DigitVal(ch) == (CHOOSE i \in 1..Len(Digits) : Digits[i] = ch) - 1

IsIndexKey(k) ==
    /\ Len(k) > 0
    /\ \A i \in 1..Len(k) : k[i] \in DigitSet
    /\ (Len(k) = 1 \/ k[1] # "0")

RECURSIVE KeyToIndex(_)
KeyToIndex(k) ==
    IF Len(k) = 0 THEN 0
    ELSE 10 * KeyToIndex(SubSeq(k, 1, Len(k) - 1)) + DigitVal(k[Len(k)])

RECURSIVE IndexToKey(_)
IndexToKey(i) ==
    IF i < 10 THEN <<Digits[i + 1]>>
    ELSE IndexToKey(i \div 10) \o <<Digits[(i % 10) + 1]>>

RECURSIVE Holes(_)
Holes(n) == IF n <= 0 THEN <<>> ELSE Append(Holes(n - 1), Hole)

(***************************************************************************)
(* Host semantics the source relies on: property read and write, object    *)
(* and array spread, slice, concat, and the coercions used by the caller's *)
(* callbacks.                                                              *)
(***************************************************************************)
GetProp(cell, key) ==
    IF cell.kind = "arr" /\ IsIndexKey(key) /\ KeyToIndex(key) < Len(cell.elems)
    THEN LET e == cell.elems[KeyToIndex(key) + 1]
         IN  IF e = Hole THEN Undefined ELSE e
    ELSE IF key \in DOMAIN cell.fields THEN cell.fields[key]
    ELSE Undefined

SetProp(cell, key, val) ==
    IF cell.kind = "arr" /\ IsIndexKey(key)
    THEN LET i == KeyToIndex(key)
         IN  IF i < Len(cell.elems)
             THEN [cell EXCEPT !.elems = [@ EXCEPT ![i + 1] = val]]
             ELSE [cell EXCEPT !.elems = @ \o Holes(i - Len(@)) \o <<val>>]
    ELSE [cell EXCEPT !.fields =
             [k \in (DOMAIN @) \cup {key} |-> IF k = key THEN val ELSE @[k]]]

OwnProps(h, v) ==
    IF v.t = "str"
    THEN [k \in {IndexToKey(i - 1) : i \in 1..Len(v.s)} |->
             Str(<<v.s[KeyToIndex(k) + 1]>>)]
    ELSE IF ~IsRef(v) THEN NoFields
    ELSE LET cell == h[v.n]
             idx  == {IndexToKey(i - 1) :
                         i \in {j \in 1..Len(cell.elems) : cell.elems[j] # Hole}}
         IN  [k \in idx \cup DOMAIN cell.fields |->
                 IF k \in idx THEN cell.elems[KeyToIndex(k) + 1]
                 ELSE cell.fields[k]]

Overlay(f, g) ==
    [k \in (DOMAIN f) \cup (DOMAIN g) |-> IF k \in DOMAIN g THEN g[k] ELSE f[k]]

RECURSIVE Densify(_)
Densify(e) ==
    IF e = <<>> THEN <<>>
    ELSE <<IF Head(e) = Hole THEN Undefined ELSE Head(e)>> \o Densify(Tail(e))

ArraySpread(cell) == Densify(cell.elems)

Min(a, b) == IF a < b THEN a ELSE b

Max(a, b) == IF a > b THEN a ELSE b

RelIndex(i, len) == IF i < 0 THEN Max(len + i, 0) ELSE Min(i, len)

SliceSeq(e, begin, end) ==
    LET k == RelIndex(begin, Len(e))
        f == RelIndex(end, Len(e))
    IN  IF k >= f THEN <<>> ELSE SubSeq(e, k + 1, f)

ConcatArg(h, v) == IF IsArray(h, v) THEN h[v.n].elems ELSE <<v>>

Truthy(v) ==
    ~ \/ v.t \in {"undefined", "null", "nan"}
      \/ (v.t = "bool" /\ v.n = 0)
      \/ (v.t = "num" /\ v.n = 0)
      \/ (v.t = "str" /\ v.s = <<>>)

NumToChars(i) == IF i < 0 THEN <<"-">> \o IndexToKey(0 - i) ELSE IndexToKey(i)

RECURSIVE ToStr(_, _)
RECURSIVE JoinElems(_, _, _)
JoinElems(h, e, i) ==
    IF i > Len(e) THEN <<>>
    ELSE (IF i > 1 THEN <<",">> ELSE <<>>)
         \o (IF e[i].t \in {"undefined", "null", "hole"} THEN <<>> ELSE ToStr(h, e[i]))
         \o JoinElems(h, e, i + 1)

ToStr(h, v) ==
    CASE v.t = "str" -> v.s
      [] v.t = "num" -> NumToChars(v.n)
      [] v.t = "bool" -> IF v.n = 1 THEN <<"t", "r", "u", "e">>
                         ELSE <<"f", "a", "l", "s", "e">>
      [] v.t = "nan" -> <<"N", "a", "N">>
      [] v.t = "null" -> <<"n", "u", "l", "l">>
      [] v.t = "ref" /\ h[v.n].kind = "arr" -> JoinElems(h, h[v.n].elems, 1)
      [] v.t = "ref" /\ h[v.n].kind = "obj" -> <<"[object Object]">>
      [] v.t = "ref" /\ h[v.n].kind = "fn" -> <<"[function]">>
      [] OTHER -> <<"u", "n", "d", "e", "f", "i", "n", "e", "d">>

AllDigits(c) == Len(c) > 0 /\ \A i \in 1..Len(c) : c[i] \in DigitSet

StrToNumber(c) ==
    IF c = <<>> THEN Num(0)
    ELSE IF AllDigits(c) THEN Num(KeyToIndex(c))
    ELSE IF c[1] = "-" /\ AllDigits(Tail(c)) THEN Num(0 - KeyToIndex(Tail(c)))
    ELSE NaN

ToNumber(h, v) ==
    CASE v.t = "num" -> v
      [] v.t = "bool" -> Num(v.n)
      [] v.t = "null" -> Num(0)
      [] v.t = "str" -> StrToNumber(v.s)
      [] v.t = "ref" /\ h[v.n].kind = "arr" -> StrToNumber(ToStr(h, v))
      [] OTHER -> NaN

Times(h, v, k) ==
    LET x == ToNumber(h, v) IN IF x.t = "nan" THEN NaN ELSE Num(x.n * k)

Plus(h, v, k) ==
    IF v.t = "str" \/ IsRef(v) THEN Str(ToStr(h, v) \o NumToChars(k))
    ELSE LET x == ToNumber(h, v) IN IF x.t = "nan" THEN NaN ELSE Num(x.n + k)

(***************************************************************************)
(* Actions.  An action-or-literal argument is a term: "lit" wraps a value  *)
(* (typeof 'function' only when the value refers to a function object),    *)
(* "cb" is a function written by the caller, every other term is the       *)
(* closure a combinator of the library returns.                            *)
(***************************************************************************)
Lit(v) == [op |-> "lit", v |-> v]

Cb(name) == [op |-> "cb", name |-> name]

Replace(update) == [a |-> update, op |-> "replace"]

Merge(u) == [a |-> u, op |-> "merge"]

Concat(u) == [a |-> u, op |-> "concat"]

SetIn(key, u) == [a |-> u, op |-> "setIn", key |-> key]

SelectArray(path, u) == [a |-> u, op |-> "selectArray", keys |-> path]

Select(path, u) == [a |-> u, op |-> "select", path |-> path]

SelectAll(pathsWithActions) == [op |-> "selectAll", entries |-> pathsWithActions]

Collect(immutableActions) == [op |-> "collect", list |-> immutableActions]

MapInner(fn) == [a |-> fn, op |-> "mapInner"]

Map(fn) == [a |-> fn, op |-> "map"]

Range(start, length, u) ==
    [a |-> u, op |-> "range", start |-> start, length |-> length]

IsFunction(h, a) == a.op # "lit" \/ IsFnValue(h, a.v)

(***************************************************************************)
(* The caller's callbacks used as inputs: old => !old, v => v * 2,         *)
(* v => v * 10, old => old + 1, old => old ("id"), (v, i) => i, and        *)
(* () => replace(old => old * 10), which returns a function.               *)
(***************************************************************************)
CallCb(h, name, arg, idx) ==
    CASE name = "not" -> Ok(Bool(~Truthy(arg)), h)
      [] name = "times2" -> Ok(Times(h, arg, 2), h)
      [] name = "times10" -> Ok(Times(h, arg, 10), h)
      [] name = "plus1" -> Ok(Plus(h, arg, 1), h)
      [] name = "index" -> Ok(idx, h)
      [] name = "mkTimes10" ->
            Ok(Ref(Len(h) + 1), Append(h, FnCell(Replace(Cb("times10")))))
      [] name = "mkMerge" ->
            IF arg.t \in {"undefined", "null"} THEN Throw(h)
            ELSE LET id == IF IsRef(arg) THEN GetProp(h[arg.n], <<"a">>) ELSE Undefined
                     h1 == Append(h, ObjCell(<<"b">> :> id))
                 IN  Ok(Ref(Len(h1) + 1), Append(h1, FnCell(Merge(Lit(Ref(Len(h1)))))))
      [] name = "mkCollect" ->
            Ok(Ref(Len(h) + 1),
               Append(h, FnCell(Collect(<<SetIn(<<"a">>, Lit(Num(7))),
                                          Replace(Cb("mkMerge"))>>))))
      [] OTHER -> Ok(arg, h)

(***************************************************************************)
(* pathSplit: path.match(/(\w+|\[[^\]]+\])/gm), then the first '[' and the *)
(* first ']' of every match removed.                                       *)
(***************************************************************************)
WordChars ==
    DigitSet \cup {"_"} \cup
    {"a", "b", "c", "d", "e", "f", "g", "h", "i", "j", "k", "l", "m",
     "n", "o", "p", "q", "r", "s", "t", "u", "v", "w", "x", "y", "z",
     "A", "B", "C", "D", "E", "F", "G", "H", "I", "J", "K", "L", "M",
     "N", "O", "P", "Q", "R", "S", "T", "U", "V", "W", "X", "Y", "Z"}

RECURSIVE WordEnd(_, _)
WordEnd(path, i) ==
    IF i < Len(path) /\ path[i + 1] \in WordChars THEN WordEnd(path, i + 1) ELSE i

BracketEnd(path, i) ==
    LET closes == {j \in (i + 1)..Len(path) : path[j] = "]"}
    IN  IF closes = {} THEN 0
        ELSE LET j == CHOOSE c \in closes : \A d \in closes : c <= d
             IN  IF j >= i + 2 THEN j ELSE 0

RECURSIVE RegexpMatch(_, _)
RegexpMatch(path, i) ==
    IF i > Len(path) THEN <<>>
    ELSE IF path[i] \in WordChars
    THEN <<SubSeq(path, i, WordEnd(path, i))>> \o RegexpMatch(path, WordEnd(path, i) + 1)
    ELSE IF path[i] = "[" /\ BracketEnd(path, i) # 0
    THEN <<SubSeq(path, i, BracketEnd(path, i))>>
         \o RegexpMatch(path, BracketEnd(path, i) + 1)
    ELSE RegexpMatch(path, i + 1)

RemoveFirst(entry, ch) ==
    LET at == {i \in 1..Len(entry) : entry[i] = ch}
    IN  IF at = {} THEN entry
        ELSE LET i == CHOOSE c \in at : \A d \in at : c <= d
             IN  SubSeq(entry, 1, i - 1) \o SubSeq(entry, i + 1, Len(entry))

RemoveAll(entry, chars) == SelectSeq(entry, LAMBDA ch : ch \notin chars)

RECURSIVE SplitOn(_, _)
SplitOn(path, sep) ==
    LET at == {i \in 1..Len(path) : path[i] = sep}
    IN  IF at = {} THEN <<path>>
        ELSE LET i == CHOOSE c \in at : \A d \in at : c <= d
             IN  <<SubSeq(path, 1, i - 1)>> \o SplitOn(SubSeq(path, i + 1, Len(path)), sep)

pathSplitOnDots(path) == [keys |-> SplitOn(path, "."), ok |-> TRUE]

pathSplitStripsAll(path) ==
    LET m == RegexpMatch(path, 1)
    IN  IF m = <<>> THEN [keys |-> <<>>, ok |-> FALSE]
        ELSE [keys |-> [i \in 1..Len(m) |-> RemoveAll(m[i], {"[", "]"})], ok |-> TRUE]

pathSplitEmptyOnNoMatch(path) ==
    LET m == RegexpMatch(path, 1)
    IN  [keys |-> [i \in 1..Len(m) |-> RemoveFirst(RemoveFirst(m[i], "["), "]")],
         ok |-> TRUE]

pathSplitFirstMatch(path) ==
    LET m == RegexpMatch(path, 1)
    IN  IF m = <<>> THEN [keys |-> <<>>, ok |-> FALSE]
        ELSE [keys |-> <<RemoveFirst(RemoveFirst(m[1], "["), "]")>>, ok |-> TRUE]

pathSplit(path) ==
    LET m == RegexpMatch(path, 1)
    IN  IF m = <<>> THEN [keys |-> <<>>, ok |-> FALSE]
        ELSE [keys |-> [i \in 1..Len(m) |-> RemoveFirst(RemoveFirst(m[i], "["), "]")],
              ok |-> TRUE]

(***************************************************************************)
(* Object.keys of the mapping literal given to selectAll: integer-like     *)
(* keys in ascending order, then the other keys in the order written; a    *)
(* key written twice keeps its first position and its last value.          *)
(***************************************************************************)
RECURSIVE SortedIndexKeys(_)
SortedIndexKeys(ks) ==
    IF ks = {} THEN <<>>
    ELSE LET m == CHOOSE k \in ks : \A o \in ks : KeyToIndex(k) <= KeyToIndex(o)
         IN  <<m>> \o SortedIndexKeys(ks \ {m})

RECURSIVE InsertionOrder(_, _)
InsertionOrder(entries, seen) ==
    IF entries = <<>> THEN <<>>
    ELSE LET p == Head(entries).path
         IN  IF p \in seen \/ IsIndexKey(p) THEN InsertionOrder(Tail(entries), seen)
             ELSE <<p>> \o InsertionOrder(Tail(entries), seen \cup {p})

ObjectKeys(entries) ==
    SortedIndexKeys({entries[i].path : i \in {j \in 1..Len(entries) : IsIndexKey(entries[j].path)}})
    \o InsertionOrder(entries, {})

Lookup(entries, path) ==
    LET at == {i \in 1..Len(entries) : entries[i].path = path}
    IN  entries[CHOOSE i \in at : \A j \in at : j <= i].a

(***************************************************************************)
(* The evaluator and the combinators.  Each takes the heap and the current *)
(* state context and returns [val, heap, err]: the value returned, the     *)
(* heap after the call, and the exception thrown if any.                   *)
(***************************************************************************)
RECURSIVE composable(_, _, _)
RECURSIVE Call(_, _, _, _)
RECURSIVE merge(_, _, _)
RECURSIVE concat(_, _, _)
RECURSIVE setIn(_, _, _, _)
RECURSIVE replace(_, _, _)
RECURSIVE selectArray(_, _, _, _)
RECURSIVE select(_, _, _, _)
RECURSIVE selectAllReduce(_, _, _, _)
RECURSIVE selectAll(_, _, _)
RECURSIVE collectReduce(_, _, _)
RECURSIVE collect(_, _, _)
RECURSIVE arrayMap(_, _, _, _, _)
RECURSIVE mapInner(_, _, _)
RECURSIVE map(_, _, _)
RECURSIVE range(_, _, _, _, _)

composable(h, state, immutableAction) ==
    IF IsFunction(h, immutableAction)
    THEN Call(h, immutableAction, state, Undefined)
    ELSE Ok(immutableAction.v, h)

mergeContextWins(h, immutableAction, state) ==
    LET at == Len(h) + 1
        h1 == Append(h, ObjCell(OwnProps(h, state)))
        r  == composable(h1, state, immutableAction)
    IN  IF r.err # "" THEN r
        ELSE Ok(Ref(at),
                [r.heap EXCEPT ![at] =
                    ObjCell(Overlay(OwnProps(r.heap, r.val), r.heap[at].fields))])

merge(h, immutableAction, state) ==
    LET at == Len(h) + 1
        h1 == Append(h, ObjCell(OwnProps(h, state)))
        r  == composable(h1, state, immutableAction)
    IN  IF r.err # "" THEN r
        ELSE Ok(Ref(at),
                [r.heap EXCEPT ![at] =
                    ObjCell(Overlay(r.heap[at].fields, OwnProps(r.heap, r.val)))])

concatPush(h, immutableAction, state) ==
    IF state.t \in {"undefined", "null"} THEN Throw(h)
    ELSE LET r == composable(h, state, immutableAction)
         IN  IF r.err # "" THEN r
             ELSE IF IsArray(r.heap, state)
             THEN Ok(Ref(Len(r.heap) + 1),
                     Append(r.heap, ArrCell(Append(r.heap[state.n].elems, r.val))))
             ELSE IF state.t = "str"
             THEN Ok(Str(state.s \o ToStr(r.heap, r.val)), r.heap)
             ELSE Throw(r.heap)

concat(h, immutableAction, state) ==
    IF state.t \in {"undefined", "null"} THEN Throw(h)
    ELSE LET r == composable(h, state, immutableAction)
         IN  IF r.err # "" THEN r
             ELSE IF IsArray(r.heap, state)
             THEN Ok(Ref(Len(r.heap) + 1),
                     Append(r.heap,
                            ArrCell(r.heap[state.n].elems \o ConcatArg(r.heap, r.val))))
             ELSE IF state.t = "str"
             THEN Ok(Str(state.s \o ToStr(r.heap, r.val)), r.heap)
             ELSE Throw(r.heap)

setInPlace(h, key, immutableAction, state) ==
    IF ~IsRef(state) THEN Throw(h)
    ELSE LET r == composable(h, GetProp(h[state.n], key), immutableAction)
         IN  IF r.err # "" THEN r
             ELSE Ok(state, [r.heap EXCEPT ![state.n] = SetProp(@, key, r.val)])

setInAlwaysRecord(h, key, immutableAction, state) ==
    LET at == Len(h) + 1
        h1 == Append(h, ObjCell(OwnProps(h, state)))
        r  == composable(h1, GetProp(h1[at], key), immutableAction)
    IN  IF r.err # "" THEN r
        ELSE Ok(Ref(at), [r.heap EXCEPT ![at] = SetProp(@, key, r.val)])

setInCopiesTwice(h, key, immutableAction, state) ==
    LET copy == IF IsArray(h, state) THEN ArrCell(ArraySpread(h[state.n]))
                ELSE ObjCell(OwnProps(h, state))
        at   == Len(h) + 2
        h1   == Append(Append(h, copy), copy)
        r    == composable(h1, GetProp(h1[at], key), immutableAction)
    IN  IF r.err # "" THEN r
        ELSE Ok(Ref(at), [r.heap EXCEPT ![at] = SetProp(@, key, r.val)])

setInExistingOnly(h, key, immutableAction, state) ==
    LET at == Len(h) + 1
        h1 == Append(h, IF IsArray(h, state) THEN ArrCell(ArraySpread(h[state.n]))
                        ELSE ObjCell(OwnProps(h, state)))
        r  == composable(h1, GetProp(h1[at], key), immutableAction)
    IN  IF r.err # "" THEN r
        ELSE IF h1[at].kind = "obj" /\ key \notin DOMAIN h1[at].fields THEN Ok(Ref(at), r.heap)
        ELSE Ok(Ref(at), [r.heap EXCEPT ![at] = SetProp(@, key, r.val)])

setInPushesBeyondEnd(h, key, immutableAction, state) ==
    LET at == Len(h) + 1
        h1 == Append(h, IF IsArray(h, state) THEN ArrCell(ArraySpread(h[state.n]))
                        ELSE ObjCell(OwnProps(h, state)))
        r  == composable(h1, GetProp(h1[at], key), immutableAction)
    IN  IF r.err # "" THEN r
        ELSE IF /\ h1[at].kind = "arr"
                /\ IsIndexKey(key)
                /\ KeyToIndex(key) >= Len(h1[at].elems)
        THEN Ok(Ref(at), [r.heap EXCEPT ![at].elems = Append(@, r.val)])
        ELSE Ok(Ref(at), [r.heap EXCEPT ![at] = SetProp(@, key, r.val)])

setInDropsSiblings(h, key, immutableAction, state) ==
    LET at == Len(h) + 1
        h1 == Append(h, IF IsArray(h, state) THEN ArrCell(ArraySpread(h[state.n]))
                        ELSE ObjCell(NoFields))
        r  == composable(h1, GetProp(h1[at], key), immutableAction)
    IN  IF r.err # "" THEN r
        ELSE Ok(Ref(at), [r.heap EXCEPT ![at] = SetProp(@, key, r.val)])

setIn(h, key, immutableAction, state) ==
    LET at == Len(h) + 1
        h1 == Append(h, IF IsArray(h, state) THEN ArrCell(ArraySpread(h[state.n]))
                        ELSE ObjCell(OwnProps(h, state)))
        r  == composable(h1, GetProp(h1[at], key), immutableAction)
    IN  IF r.err # "" THEN r
        ELSE Ok(Ref(at), [r.heap EXCEPT ![at] = SetProp(@, key, r.val)])

replaceKeepsPrevious(h, update, state) ==
    IF IsFunction(h, update) THEN Call(h, update, state, Undefined)
    ELSE Ok(state, h)

replace(h, update, state) ==
    IF IsFunction(h, update) THEN Call(h, update, state, Undefined)
    ELSE Ok(update.v, h)

selectArray(h, path, immutableAction, state) ==
    IF Len(path) = 0 THEN composable(h, state, immutableAction)
    ELSE composable(h, state,
                    SetIn(path[1], SelectArray(Tail(path), immutableAction)))

\* select splits the path while the action is being built; the caller builds
\* and applies the action in the one expression composable(c, select(p, u)),
\* so the TypeError of a path without a token is the outcome of that expression.
select(h, path, immutableAction, state) ==
    LET split == pathSplit(path)
    IN  IF ~split.ok THEN Throw(h)
        ELSE selectArray(h, split.keys, immutableAction, state)

\* The earlier variant of select: the path is cut at every dot and handed to
\* the same selectArray.
selectEarlier(h, path, immutableAction, state) ==
    selectArray(h, SplitOn(path, "."), immutableAction, state)

selectAllFromState(h, pathsWithActions, paths, memo) ==
    IF paths = <<>> THEN Ok(memo, h)
    ELSE LET r == composable(h, memo,
                             Select(Head(paths), Lookup(pathsWithActions, Head(paths))))
         IN  IF r.err # "" THEN r
             ELSE IF Len(paths) = 1 THEN r
             ELSE selectAllReduce(r.heap, pathsWithActions, Tail(paths), memo)

selectAllReduce(h, pathsWithActions, paths, memo) ==
    IF paths = <<>> THEN Ok(memo, h)
    ELSE LET r == composable(h, memo,
                             Select(Head(paths), Lookup(pathsWithActions, Head(paths))))
         IN  IF r.err # "" THEN r
             ELSE selectAllReduce(r.heap, pathsWithActions, Tail(paths), r.val)

selectAll(h, pathsWithActions, state) ==
    selectAllReduce(h, pathsWithActions, ObjectKeys(pathsWithActions), state)

collectFromState(h, immutableActions, memo) ==
    IF immutableActions = <<>> THEN Ok(memo, h)
    ELSE LET r == composable(h, memo, Head(immutableActions))
         IN  IF r.err # "" THEN r
             ELSE IF Len(immutableActions) = 1 THEN r
             ELSE collectReduce(r.heap, Tail(immutableActions), memo)

collectReduce(h, immutableActions, memo) ==
    IF immutableActions = <<>> THEN Ok(memo, h)
    ELSE LET r == composable(h, memo, Head(immutableActions))
         IN  IF r.err # "" THEN r
             ELSE collectReduce(r.heap, Tail(immutableActions), r.val)

collect(h, immutableActions, state) == collectReduce(h, immutableActions, state)

arrayMapNoCompose(h, fn, array, index, at) ==
    IF index >= Len(array) THEN Ok(Ref(at), h)
    ELSE IF array[index + 1] = Hole THEN arrayMap(h, fn, array, index + 1, at)
    ELSE IF ~IsFunction(h, fn) THEN Throw(h)
    ELSE LET made == Call(h, fn, array[index + 1], Num(index))
         IN  IF made.err # "" THEN made
             ELSE arrayMap([made.heap EXCEPT ![at].elems[index + 1] = made.val],
                           fn, array, index + 1, at)

arrayMap(h, fn, array, index, at) ==
    IF index >= Len(array) THEN Ok(Ref(at), h)
    ELSE IF array[index + 1] = Hole THEN arrayMap(h, fn, array, index + 1, at)
    ELSE IF ~IsFunction(h, fn) THEN Throw(h)
    ELSE LET value == array[index + 1]
             made  == Call(h, fn, value, Num(index))
         IN  IF made.err # "" THEN made
             ELSE LET r == composable(made.heap, value, Lit(made.val))
                  IN  IF r.err # "" THEN r
                      ELSE arrayMap([r.heap EXCEPT ![at].elems[index + 1] = r.val],
                                    fn, array, index + 1, at)

mapInner(h, fn, array) ==
    IF ~IsArray(h, array) THEN Throw(h)
    ELSE arrayMap(Append(h, ArrCell(Holes(Len(h[array.n].elems)))),
                  fn, h[array.n].elems, 0, Len(h) + 1)

map(h, fn, state) == replace(h, MapInner(fn), state)

rangeSuffixFromStart(h, start, length, immutableAction, state) ==
    IF IsArray(h, state)
    THEN LET e  == h[state.n].elems
             h1 == Append(h, ArrCell(SliceSeq(e, start, start + length)))
             r  == composable(h1, Ref(Len(h1)), immutableAction)
         IN  IF r.err # "" THEN r
             ELSE Ok(Ref(Len(r.heap) + 1),
                     Append(r.heap, ArrCell(SliceSeq(e, 0, start)
                                            \o ConcatArg(r.heap, r.val)
                                            \o SliceSeq(e, start, Len(e)))))
    ELSE Throw(h)

rangeOverWholeSequence(h, start, length, immutableAction, state) ==
    IF IsArray(h, state)
    THEN LET e == h[state.n].elems
             r == composable(h, state, immutableAction)
         IN  IF r.err # "" THEN r
             ELSE Ok(Ref(Len(r.heap) + 1),
                     Append(r.heap,
                            ArrCell(SliceSeq(e, 0, start)
                                    \o SliceSeq(ConcatArg(r.heap, r.val), start, start + length)
                                    \o SliceSeq(e, start + length, Len(e)))))
    ELSE Throw(h)

range(h, start, length, immutableAction, state) ==
    IF IsArray(h, state)
    THEN LET e      == h[state.n].elems
             h1     == Append(h, ArrCell(SliceSeq(e, 0, start)))
             prefix == Len(h1)
             h2     == Append(h1, ArrCell(SliceSeq(e, start, start + length)))
             r      == composable(h2, Ref(Len(h2)), immutableAction)
         IN  IF r.err # "" THEN r
             ELSE LET h3 == Append(r.heap,
                                   ArrCell(r.heap[prefix].elems
                                           \o ConcatArg(r.heap, r.val)))
                      mid == Len(h3)
                      h4 == Append(h3, ArrCell(SliceSeq(h3[state.n].elems,
                                                        start + length,
                                                        Len(h3[state.n].elems))))
                  IN  Ok(Ref(Len(h4) + 1),
                         Append(h4, ArrCell(h4[mid].elems \o h4[Len(h4)].elems)))
    ELSE IF state.t = "str"
    THEN LET r == composable(h, Str(SliceSeq(state.s, start, start + length)),
                             immutableAction)
         IN  IF r.err # "" THEN r
             ELSE Ok(Str(SliceSeq(state.s, 0, start) \o ToStr(r.heap, r.val)
                         \o SliceSeq(state.s, start + length, Len(state.s))),
                     r.heap)
    ELSE Throw(h)

Call(h, fn, arg, index) ==
    CASE fn.op = "lit" -> Call(h, h[fn.v.n].code, arg, index)
      [] fn.op = "cb" -> CallCb(h, fn.name, arg, index)
      [] fn.op = "replace" -> replace(h, fn.a, arg)
      [] fn.op = "merge" -> merge(h, fn.a, arg)
      [] fn.op = "concat" -> concat(h, fn.a, arg)
      [] fn.op = "setIn" -> setIn(h, fn.key, fn.a, arg)
      [] fn.op = "selectArray" -> selectArray(h, fn.keys, fn.a, arg)
      [] fn.op = "select" -> select(h, fn.path, fn.a, arg)
      [] fn.op = "selectAll" -> selectAll(h, fn.entries, arg)
      [] fn.op = "collect" -> collect(h, fn.list, arg)
      [] fn.op = "mapInner" -> mapInner(h, fn.a, arg)
      [] fn.op = "map" -> map(h, fn.a, arg)
      [] OTHER -> range(h, fn.start, fn.length, fn.a, arg)

(***************************************************************************)
(* Structural (reference-free) value of v in heap h: what a deep-equality  *)
(* comparison of two values looks at.                                      *)
(***************************************************************************)
RECURSIVE DeepValue(_, _)
RECURSIVE DeepCode(_, _)
DeepCode(h, c) ==
    CASE c.op = "lit" -> [op |-> "lit", v |-> DeepValue(h, c.v)]
      [] c.op \in {"replace", "merge", "concat", "mapInner", "map"} ->
            [a |-> DeepCode(h, c.a), op |-> c.op]
      [] c.op = "setIn" -> [a |-> DeepCode(h, c.a), op |-> c.op, key |-> c.key]
      [] c.op = "selectArray" -> [a |-> DeepCode(h, c.a), op |-> c.op, keys |-> c.keys]
      [] c.op = "select" -> [a |-> DeepCode(h, c.a), op |-> c.op, path |-> c.path]
      [] c.op = "range" ->
            [a |-> DeepCode(h, c.a), op |-> c.op, start |-> c.start, length |-> c.length]
      [] c.op = "selectAll" ->
            [op |-> c.op,
             entries |-> [i \in 1..Len(c.entries) |->
                             [a |-> DeepCode(h, c.entries[i].a),
                              path |-> c.entries[i].path]]]
      [] c.op = "collect" ->
            [op |-> c.op, list |-> [i \in 1..Len(c.list) |-> DeepCode(h, c.list[i])]]
      [] OTHER -> c

DeepValue(h, v) ==
    IF ~IsRef(v)
    THEN [kind |-> "scalar", elems |-> <<>>, fields |-> NoFields,
          code |-> NoCode, v |-> v]
    ELSE LET cell == h[v.n]
         IN  [kind |-> cell.kind,
              elems |-> [i \in 1..Len(cell.elems) |-> DeepValue(h, cell.elems[i])],
              fields |-> [k \in DOMAIN cell.fields |-> DeepValue(h, cell.fields[k])],
              code |-> DeepCode(h, cell.code), v |-> Undefined]

(***************************************************************************)
(* Inputs.  The caller's literals occupy the first cells of every heap:    *)
(* {a: 9, d: true}, [4, 5] and [].  The contexts are a nested record, a    *)
(* sequence holding scalars, a sequence and a record, a sequence of        *)
(* records, and scalars.                                                   *)
(***************************************************************************)
LitObj == Ref(1)

LitArr == Ref(2)

LitEmpty == Ref(3)

Literals ==
    << ObjCell((<<"a">> :> Num(9)) @@ (<<"d">> :> Bool(TRUE))),
       ArrCell(<<Num(4), Num(5)>>),
       ArrCell(<<>>) >>

NestedRecord ==
    [heap |-> Literals \o
         << ObjCell((<<"a">> :> Ref(5)) @@ (<<"n">> :> Num(1)) @@ (<<"x">> :> Ref(7))),
            ObjCell((<<"b">> :> Ref(6))),
            ObjCell((<<"c">> :> Bool(TRUE))),
            ArrCell(<<Num(1), Num(2), Num(3)>>) >>,
     state |-> Ref(4)]

MixedSequence ==
    [heap |-> Literals \o
         << ArrCell(<<Num(10), Num(9), Ref(5), Ref(6)>>),
            ArrCell(<<Num(1), Num(2)>>),
            ObjCell((<<"a">> :> Num(1))) >>,
     state |-> Ref(4)]

RecordSequence ==
    [heap |-> Literals \o
         << ArrCell(<<Ref(5), Ref(6)>>),
            ObjCell((<<"a">> :> Null) @@ (<<"b">> :> Str(<<"h", "i">>))),
            ObjCell((<<"a">> :> Null)) >>,
     state |-> Ref(4)]

EmptyRecord == [heap |-> Literals \o <<ObjCell(NoFields)>>, state |-> Ref(4)]

Contexts ==
    {NestedRecord, MixedSequence, RecordSequence, EmptyRecord,
     [heap |-> Literals, state |-> Num(5)],
     [heap |-> Literals, state |-> Str(<<"h", "i">>)],
     [heap |-> Literals, state |-> Undefined]}

Updates ==
    {Lit(Num(7)), Lit(LitObj), Lit(LitArr), Lit(Undefined),
     Replace(Lit(Bool(FALSE))), Replace(Lit(LitEmpty)), Replace(Cb("not")),
     Cb("times2"), Cb("id"), Cb("mkMerge"), Merge(Lit(LitObj)), Concat(Lit(LitArr)),
     Map(Cb("times2")), SetIn(<<"a">>, Replace(Cb("plus1")))}

Keys == {<<"a">>, <<"b">>, <<"n">>, <<"x">>, <<"0">>, <<"2">>, <<"5">>}

MaxPathKeys == 3

MaxEntries == 2

MaxCollect == 3

MaxStart == 4

MaxLength == 3

MaxPathLen == 5

SeqsUpTo(S, n) == UNION {[1..m -> S] : m \in 0..n}

SelectKeys == {<<"a">>, <<"b">>, <<"c">>, <<"1">>}

KeyLists == SeqsUpTo(SelectKeys, MaxPathKeys)

PathUpdates ==
    {Lit(Num(7)), Replace(Cb("not")), Merge(Lit(LitObj)), Map(Cb("times2"))}

RECURSIVE Dotted(_)
Dotted(ks) ==
    IF ks = <<>> THEN <<>>
    ELSE IF Len(ks) = 1 THEN ks[1]
    ELSE ks[1] \o <<".">> \o Dotted(Tail(ks))

RECURSIVE Bracketed(_)
Bracketed(ks) ==
    IF ks = <<>> THEN <<>>
    ELSE <<"[">> \o ks[1] \o <<"]">> \o Bracketed(Tail(ks))

Written(ks, style) ==
    CASE style = "dot" -> Dotted(ks)
      [] style = "bracket" -> Bracketed(ks)
      [] OTHER -> IF ks = <<>> THEN <<>> ELSE ks[1] \o Bracketed(Tail(ks))

Styles == {"dot", "bracket", "mixed"}

MappingPaths == {<<"a">>, <<"a", ".", "b">>, <<"1">>, <<"1", ".", "a">>}

MaxPairKeys == 2

PairKeys == {<<"a">>, <<"1">>, <<"5">>}

PairPaths == SeqsUpTo(PairKeys, MaxPairKeys) \ {<<>>}

PairUpdates == {Lit(Num(7)), Replace(Cb("plus1"))}

Prefix(p, q) == Len(p) <= Len(q) /\ SubSeq(q, 1, Len(p)) = p

Disjoint(p, q) == ~Prefix(p, q) /\ ~Prefix(q, p)

\* The pairs of paths come in both orders, so the pairs of updates need not.
PairLists ==
    {<<SelectArray(pq[1], ab[1]), SelectArray(pq[2], ab[2])>> :
        pq \in {x \in PairPaths \X PairPaths : Disjoint(x[1], x[2])},
        ab \in {x \in PairUpdates \X PairUpdates : x[1] = x[2] \/ x[2] = Lit(Num(7))}}

SeparatorPaths == {<<>>, <<".">>, <<".", ".">>, <<"[", "]">>, <<"]", ".", "[">>}

\* The key list a path is written from, paired with the path string; a path
\* holding separators only is written from no key.
SelectInputs ==
    {<<ks, Written(ks, style)>> : ks \in KeyLists, style \in Styles}
        \cup {<<<<>>, p>> : p \in SeparatorPaths}

MappingUpdates ==
    {Lit(Num(7)), Lit(LitEmpty), Replace(Cb("not")), Merge(Lit(LitObj))}

\* An entry whose path holds no token.
SeparatorEntry == [a |-> Lit(Num(7)), path |-> <<".">>]

Mappings ==
    {m \in SeqsUpTo([a : MappingUpdates, path : MappingPaths] \cup {SeparatorEntry},
                    MaxEntries) :
        \A i, j \in 1..Len(m) : i # j => m[i].path # m[j].path}

CollectItems ==
    {Lit(Num(7)), Replace(Cb("times2")), Replace(Cb("plus1")),
     SetIn(<<"a">>, Lit(Num(7))), Merge(Lit(LitObj))}

CollectLists == SeqsUpTo(CollectItems, MaxCollect) \cup PairLists

Producers ==
    {Cb("times2"), Cb("index"), Cb("mkTimes10"), Cb("mkCollect"), Replace(Cb("times10")),
     SetIn(<<"a">>, Lit(Num(7))), Lit(Num(3))}

RangeUpdates ==
    {Map(Cb("times2")), Map(Cb("index")), Replace(Lit(LitEmpty)),
     Replace(Lit(LitArr)), Lit(Num(7))}

PathAlphabet == {"a", ".", "[", "]"}

DocPath ==
    <<"f", "o", "o", ".", "b", "a", "r", "[", "k", "e", "y", ".", "w", "i", "t", "h",
      ".", "d", "o", "t", "s", "]", ".", "f", "i", "z", "z", "[", "b", "u", "z", "z", "]">>

WordPaths ==
    {<<"a", "_", "1">>, <<"0", ".", "b", "2">>, <<"_", ".", "x", "_", "y", ".", "9">>,
     <<"f", "o", "o", ".", "b", "a", "r">>}

PathStrings == SeqsUpTo(PathAlphabet, MaxPathLen) \cup {DocPath} \cup WordPaths

VARIABLES heap, state, snapshot, pc, action, written, before, result, error, path, keys

vars == <<heap, state, snapshot, pc, action, written, before, result, error, path, keys>>

Init ==
    /\ \E c \in Contexts :
          /\ heap = c.heap
          /\ state = c.state
          /\ snapshot = DeepValue(c.heap, c.state)
          /\ before = c.heap
    /\ pc = "ready"
    /\ action = NoCode
    /\ written = <<>>
    /\ result = Undefined
    /\ error = ""
    /\ path = <<>>
    /\ keys = <<>>

(***************************************************************************)
(* composable(state, immutableAction) called by the application.           *)
(***************************************************************************)
Evaluate(immutableAction) ==
    /\ pc = "ready"
    /\ LET r == composable(heap, state, immutableAction)
       IN  /\ heap' = r.heap
           /\ result' = r.val
           /\ error' = r.err
    /\ action' = immutableAction
    /\ before' = heap
    /\ pc' = "done"
    /\ UNCHANGED <<state, snapshot, path, keys>>

EvaluateAction(immutableAction) == Evaluate(immutableAction) /\ written' = <<>>

ApplyReplace ==
    /\ pc = "ready"
    /\ \E u \in Updates : EvaluateAction(Replace(u))

ApplyMerge ==
    /\ pc = "ready"
    /\ \E u \in Updates : EvaluateAction(Merge(u))

ApplyConcat ==
    /\ pc = "ready"
    /\ \E u \in Updates : EvaluateAction(Concat(u))

ApplySetIn ==
    /\ pc = "ready"
    /\ \E k \in Keys, u \in Updates : EvaluateAction(SetIn(k, u))

ApplySelectArray ==
    /\ pc = "ready"
    /\ \E ks \in KeyLists, u \in PathUpdates : EvaluateAction(SelectArray(ks, u))

ApplySelect ==
    /\ pc = "ready"
    /\ \E w \in SelectInputs, u \in PathUpdates :
          Evaluate(Select(w[2], u)) /\ written' = w[1]

ApplySelectAll ==
    /\ pc = "ready"
    /\ \E m \in Mappings : EvaluateAction(SelectAll(m))

ApplyCollect ==
    /\ pc = "ready"
    /\ \E list \in CollectLists : EvaluateAction(Collect(list))

ApplyMap ==
    /\ pc = "ready"
    /\ \E fn \in Producers : EvaluateAction(Map(fn))

ApplyRange ==
    /\ pc = "ready"
    /\ \E start \in 0..MaxStart, length \in 0..MaxLength, u \in RangeUpdates :
          EvaluateAction(Range(start, length, u))

(***************************************************************************)
(* pathSplit called on its own, as the exported utility.                   *)
(***************************************************************************)
SplitPath ==
    /\ pc = "ready"
    /\ \E p \in PathStrings :
          /\ path' = p
          /\ LET split == pathSplit(p)
             IN  /\ keys' = split.keys
                 /\ error' = IF split.ok THEN "" ELSE "TypeError"
    /\ pc' = "split"
    /\ UNCHANGED <<heap, state, snapshot, action, written, before, result>>

(***************************************************************************)
(* The application drops the value returned; the cells the call allocated  *)
(* are garbage and are collected.                                          *)
(***************************************************************************)
Release ==
    /\ pc # "ready"
    /\ pc' = "ready"
    /\ heap' = SubSeq(heap, 1, Len(before))
    /\ before' = SubSeq(heap, 1, Len(before))
    /\ action' = NoCode
    /\ written' = <<>>
    /\ result' = Undefined
    /\ error' = ""
    /\ path' = <<>>
    /\ keys' = <<>>
    /\ UNCHANGED <<state, snapshot>>

Next ==
    \/ ApplyReplace
    \/ ApplyMerge
    \/ ApplyConcat
    \/ ApplySetIn
    \/ ApplySelectArray
    \/ ApplySelect
    \/ ApplySelectAll
    \/ ApplyCollect
    \/ ApplyMap
    \/ ApplyRange
    \/ SplitPath
    \/ Release

Spec == Init /\ [][Next]_vars

(***************************************************************************)
(* Properties.                                                             *)
(***************************************************************************)
Done(op) == pc = "done" /\ action.op = op

Outcome(r) ==
    [val |-> IF r.err = "" THEN DeepValue(r.heap, r.val) ELSE DeepValue(r.heap, Undefined),
     err |-> r.err]

Observed == Outcome([val |-> result, heap |-> heap, err |-> error])

IsNew(v) == IsRef(v) /\ v.n > Len(before)

\* C1: evaluating composable(c, a) leaves c and every container reachable from
\* c unchanged: every cell that existed before the call is the same after it,
\* and the deep snapshot of c taken at the start still equals c, after any
\* sequence of evaluations against the same c.
C1_NonMutation ==
    /\ Len(heap) >= Len(before)
    /\ \A a \in 1..Len(before) : heap[a] = before[a]
    /\ DeepValue(heap, state) = snapshot

C1_Witness ==
    /\ Done("setIn")
    /\ IsRef(state)
    /\ error = ""
    /\ IsNew(result)
    /\ DeepValue(heap, result) # snapshot

\* C2: composable(c, replace(x)) is x itself, with no error, whatever the kind
\* of c, when x is a literal, and is the outcome of x(c) when x is a function.
C2_Replace ==
    Done("replace") =>
        IF IsFunction(before, action.a)
        THEN Observed = Outcome(Call(before, action.a, state, Undefined))
        ELSE error = "" /\ result = action.a.v /\ heap = before

C2_Witness ==
    /\ Done("replace")
    /\ IsObject(before, state)
    /\ action.a = Lit(Num(7))
    /\ result = Num(7)

\* C3: for a record context c and an update u evaluating to a record v,
\* composable(c, merge(u)) is a new record whose keys are keys(c) united with
\* keys(v); the keys of v hold v's values and the keys only in c hold the very
\* values c held.
C3_Merge ==
    Done("merge") /\ IsObject(before, state) =>
        LET ev == composable(before, state, action.a)
        IN  (ev.err = "" /\ IsObject(ev.heap, ev.val)) =>
                LET c == before[state.n].fields
                    v == ev.heap[ev.val.n].fields
                IN  /\ error = ""
                    /\ IsNew(result)
                    /\ IsObject(heap, result)
                    /\ DOMAIN heap[result.n].fields = (DOMAIN c) \cup (DOMAIN v)
                    /\ \A k \in DOMAIN v :
                          DeepValue(heap, heap[result.n].fields[k])
                              = DeepValue(ev.heap, v[k])
                    /\ \A k \in (DOMAIN c) \ (DOMAIN v) :
                          heap[result.n].fields[k] = c[k]

C3_Witness ==
    /\ Done("merge")
    /\ IsObject(before, state)
    /\ action.a = Lit(LitObj)
    /\ <<"a">> \in DOMAIN before[state.n].fields
    /\ <<"n">> \in DOMAIN before[state.n].fields
    /\ heap[result.n].fields[<<"a">>] = Num(9)
    /\ heap[result.n].fields[<<"d">>] = Bool(TRUE)
    /\ heap[result.n].fields[<<"a">>] # before[state.n].fields[<<"a">>]

KeyPresent(cell, key) ==
    IF cell.kind = "arr" THEN IsIndexKey(key) /\ KeyToIndex(key) < Len(cell.elems)
    ELSE key \in DOMAIN cell.fields

\* C4: for a record or sequence context c and a key k present in c,
\* composable(c, setIn(k, u)) is a new container of the same kind with the same
\* keys (the same length for a sequence), whose child at k is
\* composable(c[k], u) and whose other children are the identical values of c.
C4_SetInLocality ==
    (/\ Done("setIn")
     /\ IsObject(before, state) \/ IsArray(before, state)
     /\ KeyPresent(before[state.n], action.key)) =>
        LET c  == before[state.n]
            ev == composable(before, GetProp(c, action.key), action.a)
        IN  ev.err = "" =>
                /\ error = ""
                /\ IsNew(result)
                /\ heap[result.n].kind = c.kind
                /\ Len(heap[result.n].elems) = Len(c.elems)
                /\ DOMAIN heap[result.n].fields = DOMAIN c.fields
                /\ DeepValue(heap, GetProp(heap[result.n], action.key))
                       = DeepValue(ev.heap, ev.val)
                /\ \A i \in 1..Len(c.elems) :
                      IndexToKey(i - 1) # action.key =>
                          heap[result.n].elems[i] = c.elems[i]
                /\ \A k \in DOMAIN c.fields :
                      k # action.key => heap[result.n].fields[k] = c.fields[k]

C4_WitnessSequence ==
    /\ Done("setIn")
    /\ IsArray(before, state)
    /\ action.key = <<"0">>
    /\ error = ""
    /\ Len(before[state.n].elems) > 1
    /\ IsRef(before[state.n].elems[2])
    /\ heap[result.n].elems[1] # before[state.n].elems[1]

RECURSIVE Chain(_, _)
Chain(ks, u) == IF ks = <<>> THEN u ELSE SetIn(ks[1], Chain(Tail(ks), u))

\* C5: select(p, u) applied to c gives what selectArray(keys, u) gives, keys
\* being the key list the path string p is written from ('a.b.c' and
\* ['a','b','c']); selectArray(keys, u) gives what the nested chain
\* setIn(k1, setIn(k2, ... setIn(kn, u))) gives, and selectArray([], u) gives
\* composable(c, u).
C5_PathEquivalence ==
    /\ (Done("select") /\ written # <<>>) =>
          /\ \E style \in Styles : action.path = Written(written, style)
          /\ Observed = Outcome(composable(before, state, SelectArray(written, action.a)))
    /\ Done("selectArray") =>
          /\ Observed = Outcome(composable(before, state, Chain(action.keys, action.a)))
          /\ action.keys = <<>> =>
                Observed = Outcome(composable(before, state, action.a))

C5_Witness ==
    /\ Done("select")
    /\ action.path = <<"a", "[", "b", "]", "[", "c", "]">>
    /\ written = <<<<"a">>, <<"b">>, <<"c">>>>
    /\ action.a = Replace(Cb("not"))
    /\ IsObject(before, state)
    /\ error = ""
    /\ Observed = Outcome(composable(before, state,
                                     SelectArray(<<<<"a">>, <<"b">>, <<"c">>>>,
                                                 Replace(Cb("not")))))
    /\ heap[heap[heap[result.n].fields[<<"a">>].n].fields[<<"b">>].n].fields[<<"c">>]
           = Bool(FALSE)

(***************************************************************************)
(* The tokens of a path, position by position: a token starts at n when n  *)
(* lies in no token that starts further left and either a word character   *)
(* or a closable '[' stands at n.                                          *)
(***************************************************************************)
ClosesAt(p, i) ==
    IF \E j \in (i + 2)..Len(p) :
           p[j] = "]" /\ \A k \in (i + 1)..(j - 1) : p[k] # "]"
    THEN CHOOSE j \in (i + 2)..Len(p) :
             p[j] = "]" /\ \A k \in (i + 1)..(j - 1) : p[k] # "]"
    ELSE 0

CanStart(p, i) == p[i] \in WordChars \/ (p[i] = "[" /\ ClosesAt(p, i) # 0)

TokenEnd(p, i) ==
    IF p[i] \in WordChars
    THEN CHOOSE j \in i..Len(p) :
             /\ \A k \in i..j : p[k] \in WordChars
             /\ (j = Len(p) \/ p[j + 1] \notin WordChars)
    ELSE ClosesAt(p, i)

RECURSIVE TokenStartsTo(_, _)
TokenStartsTo(p, n) ==
    IF n = 0 THEN {}
    ELSE LET left == TokenStartsTo(p, n - 1)
         IN  IF CanStart(p, n) /\ \A s \in left : TokenEnd(p, s) < n
             THEN left \cup {n}
             ELSE left

TokenStarts(p) == TokenStartsTo(p, Len(p))

TokenKey(p, i) ==
    IF p[i] \in WordChars THEN SubSeq(p, i, TokenEnd(p, i))
    ELSE SubSeq(p, i + 1, TokenEnd(p, i) - 1)

\* C6: pathSplit returns one key per token of the path, in token order: a
\* maximal run of word characters as it stands, a bracketed token without its
\* enclosing brackets and with its inner content verbatim; the characters
\* between tokens give no key; 'foo.bar[key.with.dots].fizz[buzz]' gives
\* ['foo','bar','key.with.dots','fizz','buzz'].
C6_PathSplitTokens ==
    (pc = "split" /\ TokenStarts(path) # {}) =>
        /\ error = ""
        /\ Len(keys) = Cardinality(TokenStarts(path))
        /\ \A i \in TokenStarts(path) :
              keys[Cardinality({s \in TokenStarts(path) : s <= i})] = TokenKey(path, i)
        /\ path = DocPath =>
              keys = << <<"f", "o", "o">>, <<"b", "a", "r">>,
                        <<"k", "e", "y", ".", "w", "i", "t", "h", ".", "d", "o", "t", "s">>,
                        <<"f", "i", "z", "z">>, <<"b", "u", "z", "z">> >>

C6_Witness ==
    /\ pc = "split"
    /\ path = <<"[", "a", "[", ".", "]">>
    /\ keys = << <<"a", "[", ".">> >>

(***************************************************************************)
(* select(path, action) for each entry of a list, one after another, the   *)
(* value each returns being the context of the next.                       *)
(***************************************************************************)
RECURSIVE SelectEach(_, _, _)
SelectEach(h, entries, memo) ==
    IF entries = <<>> THEN Ok(memo, h)
    ELSE LET r == composable(h, memo, Select(Head(entries).path, Head(entries).a))
         IN  IF r.err # "" THEN r
             ELSE SelectEach(r.heap, Tail(entries), r.val)

HostOrder(entries) ==
    LET ks == ObjectKeys(entries)
    IN  [i \in 1..Len(ks) |-> [a |-> Lookup(entries, ks[i]), path |-> ks[i]]]

RECURSIVE ApplyEach(_, _, _)
ApplyEach(h, list, c) ==
    IF list = <<>> THEN Ok(c, h)
    ELSE LET r == composable(h, c, Head(list))
         IN  IF r.err # "" THEN r
             ELSE ApplyEach(r.heap, Tail(list), r.val)

\* C8: composable(c, collect([a1, ..., an])) is
\* composable(... composable(composable(c, a1), a2) ..., an), the output of
\* each step being the input of the next, and collect(xs ++ ys) gives what
\* collect([collect(xs), collect(ys)]) gives for every split of the list.
C8_CollectSequencing ==
    Done("collect") =>
        /\ Observed = Outcome(ApplyEach(before, action.list, state))
        /\ Len(action.list) = 2 =>
              LET first == composable(before, state, action.list[1])
              IN  first.err = "" =>
                      Observed = Outcome(composable(first.heap, first.val, action.list[2]))
        /\ \A k \in 0..Len(action.list) :
              LET xs == SubSeq(action.list, 1, k)
                  ys == SubSeq(action.list, k + 1, Len(action.list))
              IN  Observed = Outcome(composable(before, state,
                                                Collect(<<Collect(xs), Collect(ys)>>)))

C8_Witness ==
    /\ Done("collect")
    /\ state = Num(5)
    /\ action.list = <<Replace(Cb("times2")), Replace(Cb("plus1")), Replace(Cb("times2"))>>
    /\ error = ""
    /\ result = Num(22)

\* C9: for a sequence context s and an update u that evaluates to a sequence
\* v, composable(s, concat(u)) is a new sequence of length len(s) + len(v):
\* the elements of s in order, then the elements of v in order, duplicates
\* kept.
C9_Concat ==
    Done("concat") /\ IsArray(before, state) =>
        LET ev == composable(before, state, action.a)
        IN  (ev.err = "" /\ IsArray(ev.heap, ev.val)) =>
                LET s == before[state.n].elems
                    v == ev.heap[ev.val.n].elems
                IN  /\ error = ""
                    /\ IsNew(result)
                    /\ result # ev.val
                    /\ IsArray(heap, result)
                    /\ Len(heap[result.n].elems) = Len(s) + Len(v)
                    /\ \A i \in 1..Len(s) : heap[result.n].elems[i] = s[i]
                    /\ \A i \in 1..Len(v) :
                          DeepValue(heap, heap[result.n].elems[Len(s) + i])
                              = DeepValue(ev.heap, v[i])

C9_Witness ==
    /\ Done("concat")
    /\ IsArray(before, state)
    /\ action.a = Cb("id")
    /\ error = ""
    /\ Len(before[state.n].elems) = 4
    /\ heap[result.n].elems = before[state.n].elems \o before[state.n].elems

\* C10: for a sequence context s and a producer function fn,
\* composable(s, map(fn)) is a new sequence of the length of s whose element
\* at each index i is composable(s[i], fn(s[i], i)): what fn returns is the
\* element when it is not a function and is applied to s[i] when it is one.
C10_Map ==
    (/\ Done("map")
     /\ IsArray(before, state)
     /\ IsFunction(before, action.a)
     /\ \A i \in 1..Len(before[state.n].elems) : before[state.n].elems[i] # Hole) =>
        LET s == before[state.n].elems
            element(i) ==
                LET made == Call(before, action.a, s[i], Num(i - 1))
                IN  IF made.err # "" THEN made
                    ELSE composable(made.heap, s[i], Lit(made.val))
        IN  IF \A i \in 1..Len(s) : element(i).err = ""
            THEN /\ error = ""
                 /\ IsNew(result)
                 /\ IsArray(heap, result)
                 /\ Len(heap[result.n].elems) = Len(s)
                 /\ \A i \in 1..Len(s) :
                       DeepValue(heap, heap[result.n].elems[i])
                           = DeepValue(element(i).heap, element(i).val)
            ELSE error # ""

C10_Witness ==
    /\ Done("map")
    /\ IsArray(before, state)
    /\ action.a = Cb("mkTimes10")
    /\ error = ""
    /\ before[state.n].elems[1] = Num(10)
    /\ Len(heap[result.n].elems) = 4
    /\ heap[result.n].elems[1] = Num(100)
    /\ heap[result.n].elems[2] = Num(90)

\* C11: for a sequence s, start >= 0, length >= 0 and an update u that
\* evaluates on the window to a sequence, composable(s, range(start, length, u))
\* is s[0:start] ++ composable(s[start:start+length], u) ++ s[start+length:]:
\* its length is len(s) - len(window) + len(evaluated window), the elements
\* outside the window are the identical values in the same order; a start
\* beyond the end makes the prefix all of s, a length beyond the remaining
\* elements makes the window all the remaining elements.
C11_RangeSplice ==
    Done("range") /\ IsArray(before, state) =>
        LET s      == before[state.n].elems
            p      == Min(action.start, Len(s))
            w      == Min(action.length, Len(s) - p)
            window == Append(before, ArrCell(SubSeq(s, p + 1, p + w)))
            ev     == composable(window, Ref(Len(window)), action.a)
        IN  (ev.err = "" /\ IsArray(ev.heap, ev.val)) =>
                LET v == ev.heap[ev.val.n].elems
                    e == heap[result.n].elems
                IN  /\ error = ""
                    /\ IsNew(result)
                    /\ IsArray(heap, result)
                    /\ Len(e) = Len(s) - w + Len(v)
                    /\ \A i \in 1..p : e[i] = s[i]
                    /\ \A i \in 1..Len(v) :
                          DeepValue(heap, e[p + i]) = DeepValue(ev.heap, v[i])
                    /\ \A i \in (p + w + 1)..Len(s) : e[i - w + Len(v)] = s[i]
                    /\ action.start >= Len(s) => (p = Len(s) /\ w = 0)
                    /\ action.start + action.length >= Len(s) => p + w = Len(s)

C11_Witness ==
    /\ Done("range")
    /\ IsArray(before, state)
    /\ action.start = 1
    /\ action.length = 1
    /\ action.a = Replace(Lit(LitArr))
    /\ error = ""
    /\ before[state.n].elems[1] = Num(10)
    /\ Len(before[state.n].elems) = 4
    /\ Len(heap[result.n].elems) = 5
    /\ heap[result.n].elems[2] = Num(4)
    /\ heap[result.n].elems[3] = Num(5)
    /\ heap[result.n].elems[4] = before[state.n].elems[3]
    /\ heap[result.n].elems[5] = before[state.n].elems[4]

\* C12: when replace is given a callback that itself returns an action, the
\* returned action is applied to the current context; so mapping
\* collect([setIn('id', n), replace(user => merge({ name: f(user.id) }))])
\* over a sequence of records gives a sequence of records, each carrying the
\* new id and the name derived from that id.
C12_NestedActionApplied ==
    /\ (Done("replace") /\ IsFunction(before, action.a)) =>
          LET made == Call(before, action.a, state, Undefined)
          IN  (made.err = "" /\ IsFnValue(made.heap, made.val)) =>
                  Observed = Outcome(composable(made.heap, state, Lit(made.val)))
    /\ (/\ Done("map")
        /\ action.a = Cb("mkCollect")
        /\ IsArray(before, state)
        /\ \A i \in 1..Len(before[state.n].elems) :
              IsObject(before, before[state.n].elems[i])) =>
          /\ error = ""
          /\ IsArray(heap, result)
          /\ Len(heap[result.n].elems) = Len(before[state.n].elems)
          /\ \A i \in 1..Len(heap[result.n].elems) :
                /\ IsObject(heap, heap[result.n].elems[i])
                /\ GetProp(heap[heap[result.n].elems[i].n], <<"a">>) = Num(7)
                /\ GetProp(heap[heap[result.n].elems[i].n], <<"b">>) = Num(7)

SpinePath == IF action.op = "selectArray" THEN action.keys ELSE written

RECURSIVE PathExists(_, _, _)
PathExists(h, v, ks) ==
    \/ ks = <<>>
    \/ /\ IsObject(h, v) \/ IsArray(h, v)
       /\ KeyPresent(h[v.n], ks[1])
       /\ PathExists(h, GetProp(h[v.n], ks[1]), Tail(ks))

RECURSIVE ValueAt(_, _, _)
ValueAt(h, v, ks) ==
    IF ks = <<>> THEN v ELSE ValueAt(h, GetProp(h[v.n], ks[1]), Tail(ks))

(***************************************************************************)
(* new is a fresh copy of the container old in which only the child at the *)
(* first key differs, and so on down the path.                             *)
(***************************************************************************)
RECURSIVE Spine(_, _, _)
Spine(old, new, ks) ==
    \/ ks = <<>>
    \/ /\ IsNew(new)
       /\ heap[new.n].kind = before[old.n].kind
       /\ Len(heap[new.n].elems) = Len(before[old.n].elems)
       /\ DOMAIN heap[new.n].fields = DOMAIN before[old.n].fields
       /\ \A i \in 1..Len(before[old.n].elems) :
             IndexToKey(i - 1) # ks[1] => heap[new.n].elems[i] = before[old.n].elems[i]
       /\ \A k \in DOMAIN before[old.n].fields :
             k # ks[1] => heap[new.n].fields[k] = before[old.n].fields[k]
       /\ Spine(GetProp(before[old.n], ks[1]), GetProp(heap[new.n], ks[1]), Tail(ks))

RECURSIVE SpineCells(_, _)
SpineCells(new, ks) ==
    IF ks = <<>> THEN {} ELSE {new.n} \cup SpineCells(GetProp(heap[new.n], ks[1]), Tail(ks))

\* C13: selectArray or select with a path of n keys that exists in the
\* context allocates exactly n new containers besides what the update itself
\* allocates, one per path segment, each a copy of the container it replaces;
\* every child off the path is the identical value in the copy as in the
\* original.
C13_SpineSharing ==
    (/\ Done("selectArray") \/ (Done("select") /\ written # <<>>)
     /\ PathExists(before, state, SpinePath)) =>
        LET ev == composable(before, ValueAt(before, state, SpinePath), action.a)
        IN  ev.err = "" =>
                /\ error = ""
                /\ Len(heap) - Len(before) = Len(SpinePath) + (Len(ev.heap) - Len(before))
                /\ Spine(state, result, SpinePath)
                /\ Cardinality(SpineCells(result, SpinePath)) = Len(SpinePath)
                /\ DeepValue(heap, ValueAt(heap, result, SpinePath))
                       = DeepValue(ev.heap, ev.val)

C13_Witness ==
    /\ Done("selectArray")
    /\ action.keys = <<<<"a">>, <<"b">>, <<"c">>>>
    /\ action.a = Replace(Cb("not"))
    /\ PathExists(before, state, action.keys)
    /\ error = ""
    /\ Len(heap) = Len(before) + 3
    /\ heap[result.n].fields[<<"x">>] = before[state.n].fields[<<"x">>]
    /\ IsRef(heap[result.n].fields[<<"x">>])
    /\ heap[result.n].fields[<<"a">>] # before[state.n].fields[<<"a">>]

(***************************************************************************)
(* v is a chain of fresh records, one per key of ks, each holding that key *)
(* only, ending in a value whose structural value is leaf.                 *)
(***************************************************************************)
RECURSIVE CreatedChain(_, _, _)
CreatedChain(v, ks, leaf) ==
    IF ks = <<>> THEN DeepValue(heap, v) = leaf
    ELSE /\ IsNew(v)
         /\ IsObject(heap, v)
         /\ DOMAIN heap[v.n].fields = {ks[1]}
         /\ CreatedChain(heap[v.n].fields[ks[1]], Tail(ks), leaf)

InsertedAt(ks) ==
    LET c  == before[state.n].fields
        ev == composable(before, Undefined, action.a)
    IN  ev.err = "" =>
            /\ error = ""
            /\ IsNew(result)
            /\ IsObject(heap, result)
            /\ DOMAIN heap[result.n].fields = (DOMAIN c) \cup {ks[1]}
            /\ \A k \in DOMAIN c : heap[result.n].fields[k] = c[k]
            /\ CreatedChain(heap[result.n].fields[ks[1]], Tail(ks),
                            DeepValue(ev.heap, ev.val))

\* C14: for a record context c and a key k absent from c,
\* composable(c, setIn(k, u)) raises no error of its own and is a record with
\* all the keys of c unchanged plus k holding composable(undefined, u); select
\* with a path whose first key is absent creates every missing level as a
\* record, so select('a.b', v) on the empty record gives {a: {b: v}}.
C14_InsertOnWrite ==
    /\ (/\ Done("setIn")
        /\ IsObject(before, state)
        /\ action.key \notin DOMAIN before[state.n].fields) => InsertedAt(<<action.key>>)
    /\ (/\ Done("select")
        /\ written # <<>>
        /\ IsObject(before, state)
        /\ written[1] \notin DOMAIN before[state.n].fields) => InsertedAt(written)

C14_Witness ==
    /\ Done("select")
    /\ written = <<<<"a">>, <<"b">>>>
    /\ action.a = Lit(Num(7))
    /\ IsObject(before, state)
    /\ before[state.n].fields = NoFields
    /\ error = ""
    /\ DOMAIN heap[result.n].fields = {<<"a">>}
    /\ DOMAIN heap[heap[result.n].fields[<<"a">>].n].fields = {<<"b">>}
    /\ heap[heap[result.n].fields[<<"a">>].n].fields[<<"b">>] = Num(7)

\* C15: for a sequence context s of length n and an index key k >= n,
\* composable(s, setIn(k, u)) is a sequence of length k + 1: positions 0..n-1
\* hold the elements of s, positions n..k-1 read as undefined, position k
\* holds composable(undefined, u); s keeps its length n.
C15_IndexExtends ==
    (/\ Done("setIn")
     /\ IsArray(before, state)
     /\ IsIndexKey(action.key)
     /\ KeyToIndex(action.key) >= Len(before[state.n].elems)) =>
        LET s  == before[state.n].elems
            k  == KeyToIndex(action.key)
            ev == composable(before, Undefined, action.a)
        IN  ev.err = "" =>
                /\ error = ""
                /\ IsNew(result)
                /\ IsArray(heap, result)
                /\ Len(heap[result.n].elems) = k + 1
                /\ \A i \in 1..Len(s) : heap[result.n].elems[i] = s[i]
                /\ \A i \in Len(s)..(k - 1) :
                      GetProp(heap[result.n], IndexToKey(i)) = Undefined
                /\ DeepValue(heap, heap[result.n].elems[k + 1]) = DeepValue(ev.heap, ev.val)
                /\ Len(heap[state.n].elems) = Len(s)

C15_Witness ==
    /\ Done("setIn")
    /\ IsArray(before, state)
    /\ action.key = <<"5">>
    /\ action.a = Lit(Num(7))
    /\ Len(before[state.n].elems) = 4
    /\ error = ""
    /\ Len(heap[result.n].elems) = 6
    /\ heap[result.n].elems[4] = before[state.n].elems[4]
    /\ heap[result.n].elems[5] = Hole
    /\ heap[result.n].elems[6] = Num(7)
    /\ Len(heap[state.n].elems) = 4

\* C16: select, or selectAll with such an entry, given a path string that
\* holds no token (the empty string, a string of separators only) ends in an
\* error raised to the caller and returns no value; it does not give the
\* result of applying the action to the whole context.
C16_MalformedPathFails ==
    /\ (Done("select") /\ TokenStarts(action.path) = {}) =>
          /\ error # ""
          /\ result = Undefined
          /\ heap = before
    /\ (/\ Done("selectAll")
        /\ \E i \in 1..Len(action.entries) : TokenStarts(action.entries[i].path) = {}) =>
          /\ error # ""
          /\ result = Undefined

C16_Witness ==
    /\ Done("select")
    /\ action.path = <<".", ".">>
    /\ action.a = Lit(Num(7))
    /\ IsObject(before, state)
    /\ error = "TypeError"
    /\ result = Undefined
    /\ Observed # Outcome(composable(before, state, action.a))

\* C17: merge applied to a context that is not a record, and concat, map or
\* range applied to a context that is not a sequence, ends in an error raised
\* to the caller and returns no value.
C17_ShapeMismatchFails ==
    /\ (Done("merge") /\ ~IsObject(before, state)) =>
          error # "" /\ result = Undefined
    /\ ((Done("concat") \/ Done("map") \/ Done("range")) /\ ~IsArray(before, state)) =>
          error # "" /\ result = Undefined

\* C18: in range(start, length, map(fn)) on a sequence s, fn receives each
\* element of the window s[start:start+length] with its index relative to the
\* window, 0 up to the window length - 1; the elements outside the window are
\* the identical values of s, never results of fn, and the result has the
\* length of s.
C18_MapIndexInRange ==
    (/\ Done("range")
     /\ IsArray(before, state)
     /\ action.a.op = "map"
     /\ IsFunction(before, action.a.a)) =>
        LET s == before[state.n].elems
            p == Min(action.start, Len(s))
            w == Min(action.length, Len(s) - p)
            element(j) ==
                LET made == Call(before, action.a.a, s[p + j], Num(j - 1))
                IN  IF made.err # "" THEN made
                    ELSE composable(made.heap, s[p + j], Lit(made.val))
        IN  (\A j \in 1..w : element(j).err = "") =>
                /\ error = ""
                /\ IsArray(heap, result)
                /\ Len(heap[result.n].elems) = Len(s)
                /\ \A i \in 1..p : heap[result.n].elems[i] = s[i]
                /\ \A j \in 1..w :
                      DeepValue(heap, heap[result.n].elems[p + j])
                          = DeepValue(element(j).heap, element(j).val)
                /\ \A i \in (p + w + 1)..Len(s) : heap[result.n].elems[i] = s[i]

C18_Witness ==
    /\ Done("range")
    /\ IsArray(before, state)
    /\ action.start = 1
    /\ action.length = 2
    /\ action.a = Map(Cb("index"))
    /\ error = ""
    /\ Len(before[state.n].elems) = 4
    /\ heap[result.n].elems[1] = before[state.n].elems[1]
    /\ heap[result.n].elems[2] = Num(0)
    /\ heap[result.n].elems[3] = Num(1)
    /\ heap[result.n].elems[4] = before[state.n].elems[4]

IsSelectPair(list) ==
    /\ Len(list) = 2
    /\ list[1].op = "selectArray"
    /\ list[2].op = "selectArray"
    /\ Disjoint(list[1].keys, list[2].keys)

\* Every sequence met along the path ks from v is addressed by an index
\* within its length.
RECURSIVE InRange(_, _, _)
InRange(h, v, ks) ==
    \/ ks = <<>>
    \/ ~IsRef(v)
    \/ /\ IsArray(h, v) => (IsIndexKey(ks[1]) /\ KeyToIndex(ks[1]) < Len(h[v.n].elems))
       /\ InRange(h, GetProp(h[v.n], ks[1]), Tail(ks))

Orders(n) == {f \in [1..n -> 1..n] : \A i, j \in 1..n : i # j => f[i] # f[j]}

Reordered(entries, f) == [i \in 1..Len(entries) |-> entries[f[i]]]

PathKeys(entries, i) == pathSplit(entries[i].path).keys

NonOverlapping(entries) ==
    \A i, j \in 1..Len(entries) :
        i # j => Disjoint(PathKeys(entries, i), PathKeys(entries, j))

\* C19 as stated: for every context and every two key paths neither of which
\* is a prefix of the other, selectArray(p, a) then selectArray(q, b) gives a
\* result deep-equal to selectArray(q, b) then selectArray(p, a); selectAll
\* over pairwise non-overlapping paths gives the same result for every order
\* of its entries.
C19_DisjointCommute ==
    /\ (Done("collect") /\ IsSelectPair(action.list)) =>
          Observed = Outcome(composable(before, state,
                                        Collect(<<action.list[2], action.list[1]>>)))
    /\ (Done("selectAll") /\ NonOverlapping(action.entries)) =>
          \A f \in Orders(Len(action.entries)) :
              Observed = Outcome(composable(before, state,
                                            SelectAll(Reordered(action.entries, f))))

\* C19: for every context and every two key paths neither of which is a
\* prefix of the other, along which every sequence is addressed by an index
\* within its length, selectArray(p, a) then selectArray(q, b) gives a result
\* deep-equal to selectArray(q, b) then selectArray(p, a); selectAll over
\* pairwise non-overlapping such paths gives the same result for every order
\* of its entries.
C19_DisjointCommuteInRange ==
    /\ (/\ Done("collect")
        /\ IsSelectPair(action.list)
        /\ InRange(before, state, action.list[1].keys)
        /\ InRange(before, state, action.list[2].keys)) =>
          Observed = Outcome(composable(before, state,
                                        Collect(<<action.list[2], action.list[1]>>)))
    /\ (/\ Done("selectAll")
        /\ NonOverlapping(action.entries)
        /\ \A i \in 1..Len(action.entries) :
              InRange(before, state, PathKeys(action.entries, i))) =>
          \A f \in Orders(Len(action.entries)) :
              Observed = Outcome(composable(before, state,
                                            SelectAll(Reordered(action.entries, f))))

C19_Witness ==
    /\ Done("collect")
    /\ action.list = <<SelectArray(<<<<"1">>, <<"5">>>>, Replace(Cb("plus1"))),
                       SelectArray(<<<<"1">>, <<"a">>>>, Lit(Num(7)))>>
    /\ IsArray(before, state)
    /\ IsObject(before, before[state.n].elems[2])
    /\ error = ""
    /\ GetProp(heap[heap[result.n].elems[2].n], <<"a">>) = Num(7)
    /\ GetProp(heap[heap[result.n].elems[2].n], <<"5">>) = NaN
    /\ Observed = Outcome(composable(before, state,
                                     Collect(<<action.list[2], action.list[1]>>)))

\* One or more non-empty word segments joined by single dots.
IsSimplePath(p) ==
    /\ p # <<>>
    /\ \A i \in 1..Len(p) : p[i] \in WordChars \cup {"."}
    /\ p[1] # "."
    /\ p[Len(p)] # "."
    /\ \A i \in 1..(Len(p) - 1) : ~(p[i] = "." /\ p[i + 1] = ".")

\* C20: for every path string made of one or more non-empty word segments
\* (letters, digits, underscore) joined by single dots, pathSplit returns
\* exactly the key list that cutting the path at every dot returns, and
\* select(path, u) gives on every context the same result as the earlier
\* variant of select, which cuts the path at the dots.
C20_VariantsAgree ==
    /\ (pc = "split" /\ IsSimplePath(path)) =>
          /\ error = ""
          /\ keys = SplitOn(path, ".")
    /\ (Done("select") /\ IsSimplePath(action.path)) =>
          Observed = Outcome(selectEarlier(before, action.path, action.a, state))

C20_Witness ==
    /\ Done("select")
    /\ action.path = <<"a", ".", "b", ".", "c">>
    /\ IsSimplePath(action.path)
    /\ action.a = Lit(Num(7))
    /\ PathExists(before, state, <<<<"a">>, <<"b">>>>)
    /\ error = ""
    /\ ValueAt(heap, result, <<<<"a">>, <<"b">>, <<"c">>>>) = Num(7)
    /\ pathSplit(action.path).keys = SplitOn(action.path, ".")
    /\ Observed = Outcome(selectEarlier(before, action.path, action.a, state))

====
